---- MODULE Spec2Model ----
(***************************************************************************)
(* Waymark (waymark_v5.py): the persistence and record-management core of  *)
(* WaymarkApp.  The storage directory is a map from file names to file     *)
(* contents, the images directory a map from stored names to the copied    *)
(* source, and each handler of the class is one action that runs to        *)
(* completion (the handlers are synchronous callbacks).                    *)
(*                                                                         *)
(* Text is modelled as a sequence of tokens.  A token is one character,    *)
(* except ".json" (the backing-file extension) and "My_First_World" (the   *)
(* default world name), which are kept whole; no other token contains a    *)
(* character of ".json", so str.replace / str.endswith on ".json" act on   *)
(* whole tokens exactly as they act on the characters.                     *)
(***************************************************************************)
EXTENDS Integers, Sequences, FiniteSets, TLC

VARIABLES
    files,                \* STORAGE_DIR: file name -> content (json text)
    images,               \* IMAGE_DIR: stored image name -> source it was copied from
    current_world,        \* self.current_world
    all_data,             \* self.all_data
    options,              \* self.ui_world_drop.options (world names listed)
    ui_registry,          \* self.ui_registry.controls: the cards, as positions in all_data
    ui_seed_value,        \* self.ui_seed_field.value
    seed_read_only,       \* self.ui_seed_field.read_only
    entry,                \* the entry captured by the open dialog's closure
    dlg,                  \* which dialog closure is held: "none", "delete", "edit"
    now,                  \* the wall clock, in seconds
    outcome,              \* how the handler that ran last ended
    card                  \* the card build_waymark_card returned last

vars == <<files, images, current_world, all_data, options, ui_registry,
          ui_seed_value, seed_read_only, entry, dlg, now, outcome, card>>

(***************************************************************************)
(* Bounds and input sets                                                   *)
(***************************************************************************)
\* SAVE is pressed only while the collection holds fewer items than this
\* (MaxWorldItems in the specification that also exercises the world controls).
MaxItems == 2
MaxWorldItems == 1

EXT == ".json"
DefaultWorld == <<"My_First_World">>
SecondsPerMinute == 60

\* The instants at which handlers run: one minute and the next.
Instants == {0, SecondsPerMinute}

\* self.selected_image_path / self.edit_image_path when the button is pressed:
\* None, or the path the file picker returned; only a readable path can be copied.
None == "None"
ImagePaths == {"shot.png", "gone.png"}
Readable == {"shot.png"}

NoImage == <<>>

\* Contents of the form fields (description, x, y, z, dimension) on SAVE.
Forms ==
    { [desc |-> <<"L", "a">>, x |-> <<"1", "0", "0">>, y |-> <<>>,
       z |-> <<"-", "2", "0", "0">>, dimension |-> "overworld"],
      [desc |-> <<>>, x |-> <<"1">>, y |-> <<"2">>, z |-> <<"3">>, dimension |-> "overworld"] }

\* Contents of the edit dialog's fields on Update.
EditForms ==
    { [desc |-> <<"l", "a", "b">>, x |-> <<>>, y |-> <<"6", "4">>, z |-> <<"8">>,
       dimension |-> "nether"] }

\* Texts typed into the search field.
Terms == { <<>>, <<"l", "a">>, <<"A", "B">> }

\* Texts the seed field holds when it is locked.
Seeds == { "", "42" }

\* Texts typed into the new-world field.
RawNames == { <<>>, <<" ">>, <<"\t", " ">>, <<" ", "a", " ">>, <<"a", EXT>> }

(***************************************************************************)
(* Text helpers                                                            *)
(***************************************************************************)
Range(s) == { s[i] : i \in DOMAIN s }

\* str.lower() on one character.
LowerChar(c) ==
    CASE c = "L" -> "l"
      [] c = "A" -> "a"
      [] c = "B" -> "b"
      [] OTHER   -> c

\* str.lower()
Lower(s) == [i \in DOMAIN s |-> LowerChar(s[i])]

\* `t in s` for strings: t occurs in s as a contiguous run.
Contains(s, t) ==
    \E k \in 0..(Len(s) - Len(t)) : \A j \in 1..Len(t) : s[k + j] = t[j]

\* str.strip() drops every whitespace character, a tab as well as a space.
IsSpace(c) == c \in {" ", "\t"}

\* str.strip(): drop leading and trailing whitespace.
RECURSIVE LStrip(_)
LStrip(s) == IF s # <<>> /\ IsSpace(Head(s)) THEN LStrip(Tail(s)) ELSE s
RECURSIVE RStrip(_)
RStrip(s) ==
    IF s # <<>> /\ IsSpace(s[Len(s)]) THEN RStrip(SubSeq(s, 1, Len(s) - 1)) ELSE s
Strip(s) == RStrip(LStrip(s))

\* str.replace(" ", "_")
ReplaceSpaces(s) == [i \in DOMAIN s |-> IF s[i] = " " THEN "_" ELSE s[i]]

\* str.replace(".json", ""): every occurrence is removed.
RECURSIVE RemoveExt(_)
RemoveExt(s) ==
    IF s = <<>> THEN <<>>
    ELSE IF Head(s) = EXT THEN RemoveExt(Tail(s))
    ELSE <<Head(s)>> \o RemoveExt(Tail(s))

\* str.endswith(".json")
EndsWithExt(s) == s # <<>> /\ s[Len(s)] = EXT

\* Code point of a token's first character: '\t' < ' ' < '.' < 'M' < '_' < 'a'.
TokRank(c) ==
    CASE c = "\t"             -> 9
      [] c = " "              -> 32
      [] c = EXT              -> 46
      [] c = "My_First_World" -> 77
      [] c = "_"              -> 95
      [] c = "a"              -> 97
      [] OTHER                -> 98

\* Python's str ordering, used by sorted().
RECURSIVE StrLess(_, _)
StrLess(a, b) ==
    IF b = <<>> THEN FALSE
    ELSE IF a = <<>> THEN TRUE
    ELSE IF Head(a) = Head(b) THEN StrLess(Tail(a), Tail(b))
    ELSE TokRank(Head(a)) < TokRank(Head(b))

(***************************************************************************)
(* Items, files and the clock                                              *)
(***************************************************************************)
\* entry.get("type") == "world_meta"
IsMeta(it) == "type" \in DOMAIN it /\ it.type = "world_meta"

\* strftime("%m/%d %H:%M"): the minute the instant falls in.
StampMinute(t) == t \div SecondsPerMinute

\* os.path.join(IMAGE_DIR, prefix + strftime('%Y%m%d%H%M%S') + ".png")
ImageName(prefix, t) == <<prefix, t>>

\* os.path.join(STORAGE_DIR, f"{world}.json")
Path(world) == world \o <<EXT>>

\* The members json.dump writes for one dict, its "key": value pairs in the
\* order the dict was built with (lines 252-257 and 314).
Members(item) ==
    IF IsMeta(item)
    THEN << <<"type", item.type>>, <<"seed", item.seed>> >>
    ELSE << <<"desc", item.desc>>, <<"x", item.x>>, <<"y", item.y>>, <<"z", item.z>>,
            <<"dimension", item.dimension>>, <<"created", item.created>>,
            <<"modified", item.modified>>, <<"image", item.image>> >>

\* The value json.load keeps for a key of an object: the one written last.
RECURSIVE LastValue(_, _, _)
LastValue(members, key, n) ==
    IF members[n][1] = key THEN members[n][2] ELSE LastValue(members, key, n - 1)

\* The dict json.load builds from the members of one object.
Dict(members) ==
    [key \in { members[i][1] : i \in DOMAIN members } |->
        LastValue(members, key, Len(members))]

\* Mutant of JsonDump: the objects are written last item first.
JsonDump_LastFirst(data) ==
    [ok |-> TRUE, text |-> [i \in DOMAIN data |-> Members(data[Len(data) + 1 - i])]]

\* json.dump(data, f): the text written for a collection, as the list of its
\* objects' members (the layout given by indent=4 carries no data).
JsonDump(data) == [ok |-> TRUE, text |-> [i \in DOMAIN data |-> Members(data[i])]]

\* json.load(f) of a text that parses.
JsonLoad(content) == [i \in DOMAIN content.text |-> Dict(content.text[i])]

\* A backing file whose text json.load cannot parse.
Malformed == [ok |-> FALSE, text |-> <<>>]

\* open(path, "w") + json.dump: the file is created or overwritten.
Written(fs, path, data) == (path :> JsonDump(data)) @@ fs

\* os.remove(path)
Removed(fs, path) == [p \in (DOMAIN fs) \ {path} |-> fs[p]]

\* save_registry_to_file
save_registry_to_file(fs, world, data) == Written(fs, Path(world), data)

\* sorted(...) of the listed names; equal names may come from different files.
RECURSIVE SortedNames(_)
SortedNames(fnames) ==
    IF fnames = {} THEN <<>>
    ELSE LET m == CHOOSE f \in fnames :
                    \A g \in fnames : ~StrLess(RemoveExt(g), RemoveExt(f))
         IN  <<RemoveExt(m)>> \o SortedNames(fnames \ {m})

\* init_world_data, line 140: the world names listed from the storage directory.
ListWorlds(fs) == SortedNames({ f \in DOMAIN fs : EndsWithExt(f) })

\* init_world_data, lines 141-143: a default world is written when none is listed.
InitFiles(fs, listed) ==
    IF listed = <<>> THEN Written(fs, Path(DefaultWorld), <<>>) ELSE fs
InitOptions(listed) ==
    IF listed = <<>> THEN <<DefaultWorld>> ELSE listed

\* sync_registry_from_file, lines 154-159: which branch the load takes.
LoadBranch(fs, world) ==
    IF Path(world) \notin DOMAIN fs THEN "missing"
    ELSE IF fs[Path(world)].ok THEN "ok" ELSE "malformed"

\* Mutant of Loaded: a parse failure leaves self.all_data as it was.
Loaded_KeepsOnMalformed(fs, world, data) ==
    CASE LoadBranch(fs, world) = "ok" -> JsonLoad(fs[Path(world)])
      [] OTHER                        -> data

\* sync_registry_from_file, lines 156-159: self.all_data after the load.
Loaded(fs, world, data) ==
    CASE LoadBranch(fs, world) = "missing"   -> data
      [] LoadBranch(fs, world) = "malformed" -> <<>>
      [] OTHER                               -> JsonLoad(fs[Path(world)])

\* sync_registry_from_file, lines 162-166: one card per item that is no metadata.
RECURSIVE CardsFrom(_, _)
CardsFrom(data, i) ==
    IF i > Len(data) THEN <<>>
    ELSE IF IsMeta(data[i]) THEN CardsFrom(data, i + 1)
    ELSE <<i>> \o CardsFrom(data, i + 1)
Cards(data) == CardsFrom(data, 1)

\* sync_registry_from_file, lines 153, 162-164: the seed shown (the last metadata item's).
RECURSIVE SeedFrom(_, _)
SeedFrom(data, i) ==
    IF i = 0 THEN ""
    ELSE IF IsMeta(data[i]) THEN data[i].seed
    ELSE SeedFrom(data, i - 1)
SeedShown(data) == SeedFrom(data, Len(data))

\* A closure's captured entry: idx is its position in self.all_data while the
\* object is a member of that list, 0 once the list was replaced by a load;
\* obj is the object's content.
NullItem == [type |-> "none"]
NoEntry == [idx |-> 0, obj |-> NullItem]
Detached(ent) == [ent EXCEPT !.idx = 0]

\* json.load builds new objects: after a load that read the file, no earlier
\* reference is a member of self.all_data.
EntryAfterSync(fs, world, ent) ==
    IF LoadBranch(fs, world) = "missing" THEN ent ELSE Detached(ent)

\* sync_registry_from_file, run on storage fs for world, with data in memory.
sync_registry_from_file(fs, world, data, ent) ==
    /\ all_data' = Loaded(fs, world, data)
    /\ ui_registry' = Cards(all_data')
    /\ ui_seed_value' = SeedShown(all_data')
    /\ entry' = EntryAfterSync(fs, world, ent)

\* init_world_data, run on storage fs.
init_world_data(fs, data, ent) ==
    LET listed == ListWorlds(fs)
    IN  /\ files' = InitFiles(fs, listed)
        /\ options' = InitOptions(listed)
        /\ current_world' = options'[1]
        /\ sync_registry_from_file(files', current_world', data, ent)

(***************************************************************************)
(* Initial states: the application right after WaymarkApp.__init__, started *)
(* on a fresh installation or on a storage directory left by an earlier    *)
(* session (one of whose files was cut short while being written).         *)
(***************************************************************************)
StoredEntry ==
    [desc |-> <<"L", "a">>, x |-> <<"1", "0", "0">>, y |-> <<"6", "4">>,
     z |-> <<"-", "2", "0", "0">>,
     dimension |-> "overworld", created |-> 0, modified |-> 0, image |-> NoImage]

InitialStorage ==
    { <<>>,
      (Path(DefaultWorld) :> JsonDump(<<StoredEntry, [type |-> "world_meta", seed |-> "42"]>>))
        @@ (Path(<<"a">>) :> Malformed) }

(***************************************************************************)
(* Handlers.  Each records in outcome its name and how it ended: "ok", the  *)
(* way it returned early ("rejected", "ignored", "unlocked") or the        *)
(* exception it raised ("copy_error", "ValueError").                       *)
(***************************************************************************)
Ended(handler, exit) == [handler |-> handler, exit |-> exit]

\* Time passes between two handlers.
Tick ==
    /\ \E t \in Instants : t > now /\ now' = t
    /\ UNCHANGED <<files, images, current_world, all_data, options, ui_registry,
                   ui_seed_value, seed_read_only, entry, dlg, outcome, card>>

\* process_new_entry, lines 252-257.
NewLog(form, t, stored_img) ==
    [desc |-> form.desc,
     x |-> IF form.x = <<>> THEN <<"0">> ELSE form.x,
     y |-> IF form.y = <<>> THEN <<"0">> ELSE form.y,
     z |-> IF form.z = <<>> THEN <<"0">> ELSE form.z,
     dimension |-> form.dimension,
     created |-> StampMinute(t), modified |-> StampMinute(t), image |-> stored_img]

\* Mutant of Inserted: the item is appended instead.
Inserted_Appends(data, item) == Append(data, item)

\* list.insert(0, item)
Inserted(data, item) == <<item>> \o data

\* Mutant of Rejected: the form is rejected only when x is empty as well.
Rejected_WhenAllEmpty(form) == form.desc = <<>> /\ form.x = <<>>

\* process_new_entry, line 243: the form is rejected.
Rejected(form) == form.desc = <<>>

\* Mutant of CopyFails: every copy succeeds.
CopyFails_Never(src) == FALSE

\* shutil.copy(src, dst) raises when src cannot be read.
CopyFails(src) == src \notin Readable

\* Mutant of Copied: the images directory keeps the latest copy only.
Copied_KeepsLatestOnly(imgs, src, dst) == (dst :> src)

\* shutil.copy(src, dst): dst is created or overwritten.
Copied(imgs, src, dst) == (dst :> src) @@ imgs

\* process_new_entry, the SAVE button, with the form fields holding form and
\* self.selected_image_path holding selected.
process_new_entry(form, selected) ==
    IF Rejected(form) THEN
        /\ outcome' = Ended("process_new_entry", "rejected")
        /\ UNCHANGED <<files, images, current_world, all_data, options, ui_registry,
                       ui_seed_value, seed_read_only, entry, dlg, now, card>>
    ELSE IF selected # None /\ CopyFails(selected) THEN
        /\ outcome' = Ended("process_new_entry", "copy_error")
        /\ UNCHANGED <<files, images, current_world, all_data, options, ui_registry,
                       ui_seed_value, seed_read_only, entry, dlg, now, card>>
    ELSE
        LET stored_img == IF selected # None THEN ImageName("img_", now) ELSE NoImage
            data == Inserted(all_data, NewLog(form, now, stored_img))
            fs == save_registry_to_file(files, current_world, data)
        IN  /\ images' = IF selected # None
                         THEN Copied(images, selected, stored_img) ELSE images
            /\ files' = fs
            /\ sync_registry_from_file(fs, current_world, data, entry)
            /\ outcome' = Ended("process_new_entry", "ok")
            /\ UNCHANGED <<current_world, options, seed_read_only, dlg, now, card>>

\* prompt_delete_entry, from the Delete button of the card at position i.
prompt_delete_entry(i) ==
    /\ i \in Range(ui_registry)
    /\ entry' = [idx |-> i, obj |-> all_data[i]]
    /\ dlg' = "delete"
    /\ outcome' = Ended("prompt_delete_entry", "ok")
    /\ UNCHANGED <<files, images, current_world, all_data, options, ui_registry,
                   ui_seed_value, seed_read_only, now, card>>

\* list.remove(x): the position of the first item equal to x, 0 when there is none.
FirstEqual(data, x) ==
    IF \E j \in DOMAIN data : data[j] = x
    THEN CHOOSE j \in DOMAIN data :
            data[j] = x /\ \A k \in 1..(j - 1) : data[k] # x
    ELSE 0

RemovedAt(data, j) == SubSeq(data, 1, j - 1) \o SubSeq(data, j + 1, Len(data))

\* finalize_delete, the Delete button of the dialog; the closure keeps its
\* entry, so each click delivered to it runs the handler on that entry.
finalize_delete ==
    LET j == FirstEqual(all_data, entry.obj)
    IN  /\ dlg = "delete"
        /\ IF j = 0 THEN
               /\ outcome' = Ended("finalize_delete", "ValueError")
               /\ UNCHANGED <<files, images, current_world, all_data, options,
                              ui_registry, ui_seed_value, seed_read_only, entry,
                              dlg, now, card>>
           ELSE
               LET data == RemovedAt(all_data, j)
                   fs == save_registry_to_file(files, current_world, data)
               IN  /\ files' = fs
                   /\ sync_registry_from_file(fs, current_world, data, entry)
                   /\ outcome' = Ended("finalize_delete", "ok")
                   /\ UNCHANGED <<images, current_world, options, seed_read_only,
                                  dlg, now, card>>

\* show_edit_dialog, from the Edit button of the card at position i.
show_edit_dialog(i) ==
    /\ i \in Range(ui_registry)
    /\ entry' = [idx |-> i, obj |-> all_data[i]]
    /\ dlg' = "edit"
    /\ outcome' = Ended("show_edit_dialog", "ok")
    /\ UNCHANGED <<files, images, current_world, all_data, options, ui_registry,
                   ui_seed_value, seed_read_only, now, card>>

\* Mutant of Updated: the update also stamps created.
Updated_StampsCreated(obj, form, t, final_img) ==
    [obj EXCEPT !.desc = form.desc, !.x = form.x, !.y = form.y, !.z = form.z,
                !.dimension = form.dimension, !.created = StampMinute(t),
                !.modified = StampMinute(t), !.image = final_img]

\* commit_changes, lines 280-283: entry.update(...).
Updated(obj, form, t, final_img) ==
    [obj EXCEPT !.desc = form.desc, !.x = form.x, !.y = form.y, !.z = form.z,
                !.dimension = form.dimension, !.modified = StampMinute(t),
                !.image = final_img]

\* commit_changes, the Update button of the edit dialog, with its fields
\* holding form and self.edit_image_path holding picked.
commit_changes(form, picked) ==
    /\ dlg = "edit"
    /\ IF picked # None /\ CopyFails(picked) THEN
           /\ outcome' = Ended("commit_changes", "copy_error")
           /\ UNCHANGED <<files, images, current_world, all_data, options,
                          ui_registry, ui_seed_value, seed_read_only, entry, dlg, now, card>>
       ELSE
           LET final_img == IF picked # None
                            THEN ImageName("img_edit_", now) ELSE entry.obj.image
               obj == Updated(entry.obj, form, now, final_img)
               data == IF entry.idx > 0
                       THEN [all_data EXCEPT ![entry.idx] = obj] ELSE all_data
               fs == save_registry_to_file(files, current_world, data)
           IN  /\ images' = IF picked # None
                            THEN Copied(images, picked, final_img) ELSE images
               /\ files' = fs
               /\ sync_registry_from_file(fs, current_world, data,
                                          [entry EXCEPT !.obj = obj])
               /\ outcome' = Ended("commit_changes", "ok")
               /\ UNCHANGED <<current_world, options, seed_read_only, dlg, now, card>>

\* toggle_seed_security, lines 312-314: the metadata item is updated or appended.
FirstMeta(data) ==
    IF \E j \in DOMAIN data : IsMeta(data[j])
    THEN CHOOSE j \in DOMAIN data :
            IsMeta(data[j]) /\ \A k \in 1..(j - 1) : ~IsMeta(data[k])
    ELSE 0

\* Mutant of WithSeed: a metadata item is appended on every call.
WithSeed_AlwaysAppends(data, seed) ==
    Append(data, [type |-> "world_meta", seed |-> seed])

WithSeed(data, seed) ==
    IF FirstMeta(data) # 0
    THEN [data EXCEPT ![FirstMeta(data)].seed = seed]
    ELSE Append(data, [type |-> "world_meta", seed |-> seed])

\* toggle_seed_security, the lock button; typed is the text the seed field
\* holds when the button locks it again.
toggle_seed_security(typed) ==
    IF seed_read_only THEN
        /\ seed_read_only' = FALSE
        /\ outcome' = Ended("toggle_seed_security", "unlocked")
        /\ UNCHANGED <<files, images, current_world, all_data, options, ui_registry,
                       ui_seed_value, entry, dlg, now, card>>
    ELSE
        /\ seed_read_only' = TRUE
        /\ ui_seed_value' = typed
        /\ all_data' = WithSeed(all_data, typed)
        /\ files' = save_registry_to_file(files, current_world, all_data')
        /\ outcome' = Ended("toggle_seed_security", "ok")
        /\ UNCHANGED <<images, current_world, options, ui_registry, entry, dlg, now, card>>

\* Mutant of Sanitize: the spaces are replaced before the text is stripped.
Sanitize_ReplacesFirst(raw) == Strip(ReplaceSpaces(raw))

\* execute_world_creation, line 323.
Sanitize(raw) == ReplaceSpaces(Strip(raw))

\* Mutant of execute_world_creation: an existing backing file is kept.
execute_world_creation_KeepsExisting(raw) ==
    LET name == Sanitize(raw)
    IN  IF name # <<>> THEN
            /\ outcome' = Ended("execute_world_creation", "ok")
            /\ init_world_data(IF Path(name) \in DOMAIN files THEN files
                                ELSE Written(files, Path(name), <<>>),
                               all_data, entry)
            /\ UNCHANGED <<images, seed_read_only, dlg, now, card>>
        ELSE
            /\ outcome' = Ended("execute_world_creation", "ignored")
            /\ UNCHANGED <<files, images, current_world, all_data, options,
                           ui_registry, ui_seed_value, seed_read_only, entry, dlg, now, card>>

\* execute_world_creation with the new-world field holding raw.
execute_world_creation(raw) ==
    LET name == Sanitize(raw)
    IN  IF name # <<>> THEN
            /\ outcome' = Ended("execute_world_creation", "ok")
            /\ init_world_data(Written(files, Path(name), <<>>), all_data, entry)
            /\ UNCHANGED <<images, seed_read_only, dlg, now, card>>
        ELSE
            /\ outcome' = Ended("execute_world_creation", "ignored")
            /\ UNCHANGED <<files, images, current_world, all_data, options,
                           ui_registry, ui_seed_value, seed_read_only, entry, dlg, now, card>>

\* on_world_swap, the dropdown set to the listed name value.
on_world_swap(value) ==
    /\ value \in Range(options)
    /\ current_world' = value
    /\ sync_registry_from_file(files, value, all_data, entry)
    /\ outcome' = Ended("on_world_swap", "ok")
    /\ UNCHANGED <<files, images, options, seed_read_only, dlg, now, card>>

\* show_delete_world_dialog.delete_confirmed, the "Delete Everything" button.
delete_confirmed ==
    LET path == Path(current_world)
        fs == IF path \in DOMAIN files THEN Removed(files, path) ELSE files
    IN  /\ init_world_data(fs, all_data, entry)
        /\ outcome' = Ended("delete_confirmed", "ok")
        /\ UNCHANGED <<images, seed_read_only, dlg, now, card>>

\* apply_search_filter, lines 354-356: the cards kept for a lowered term.
RECURSIVE FilterFrom(_, _, _)
FilterFrom(data, term, i) ==
    IF i > Len(data) THEN <<>>
    ELSE IF ~IsMeta(data[i]) /\ Contains(Lower(data[i].desc), term)
         THEN <<i>> \o FilterFrom(data, term, i + 1)
         ELSE FilterFrom(data, term, i + 1)

\* Mutant of SearchCards: the term is not lowered.
SearchCards_TermAsTyped(data, text) == FilterFrom(data, text, 1)

SearchCards(data, text) == FilterFrom(data, Lower(text), 1)

\* apply_search_filter, the search field changed to text.
apply_search_filter(text) ==
    /\ ui_registry' = SearchCards(all_data, text)
    /\ outcome' = Ended("apply_search_filter", "ok")
    /\ UNCHANGED <<files, images, current_world, all_data, options, ui_seed_value,
                   seed_read_only, entry, dlg, now, card>>

(***************************************************************************)
(* Cards.  build_waymark_card reads the coordinate texts of an entry with  *)
(* float() and shows the coordinates of the linked dimension.  A float is  *)
(* modelled by its sign and its magnitude counted in 1/8000, so that a     *)
(* text with up to three fraction digits, its eighth and its eightfold are *)
(* held exactly; exponents, "inf", "nan" and digit separators are not      *)
(* among the texts used.                                                   *)
(***************************************************************************)
LinkRatio == 8

DigitChars == <<"0", "1", "2", "3", "4", "5", "6", "7", "8", "9">>
IsDigit(c) == c \in Range(DigitChars)
DigitValue(c) == CHOOSE d \in 0..9 : DigitChars[d + 1] = c

RECURSIVE DigitsValue(_)
DigitsValue(ds) ==
    IF ds = <<>> THEN 0
    ELSE 10 * DigitsValue(SubSeq(ds, 1, Len(ds) - 1)) + DigitValue(ds[Len(ds)])

\* float(text) reads an optional sign, digits and an optional fraction, with
\* whitespace around them ignored.
Unsigned(t) == IF t # <<>> /\ Head(t) \in {"+", "-"} THEN Tail(t) ELSE t
DotAt(u) ==
    IF \E i \in DOMAIN u : u[i] = "."
    THEN CHOOSE i \in DOMAIN u : u[i] = "." /\ \A j \in 1..(i - 1) : u[j] # "."
    ELSE 0
IntPart(u) == IF DotAt(u) = 0 THEN u ELSE SubSeq(u, 1, DotAt(u) - 1)
FracPart(u) == IF DotAt(u) = 0 THEN <<>> ELSE SubSeq(u, DotAt(u) + 1, Len(u))

\* float(text) returns a value; otherwise it raises ValueError.
IsFloatText(text) ==
    LET u == Unsigned(Strip(text))
    IN  /\ \A i \in DOMAIN IntPart(u) : IsDigit(IntPart(u)[i])
        /\ \A i \in DOMAIN FracPart(u) : IsDigit(FracPart(u)[i])
        /\ IntPart(u) \o FracPart(u) # <<>>

\* float(text)
Float(text) ==
    LET t == Strip(text)
        u == Unsigned(t)
        thousandths == DigitsValue(IntPart(u)) * 1000
                         + DigitsValue(SubSeq(FracPart(u) \o <<"0", "0", "0">>, 1, 3))
    IN  [neg |-> t # <<>> /\ Head(t) = "-", mag |-> thousandths * LinkRatio]

\* x / 8 and x * 8
Eighth(v) == [v EXCEPT !.mag = v.mag \div LinkRatio]
Eightfold(v) == [v EXCEPT !.mag = v.mag * LinkRatio]

RECURSIVE IntText(_)
IntText(n) ==
    IF n < 10 THEN <<DigitChars[n + 1]>>
    ELSE IntText(n \div 10) \o <<DigitChars[(n % 10) + 1]>>

\* f"{v:.2f}": v rounded to the nearest hundredth, a value half-way between
\* two hundredths to the even one, written with its sign and two fraction digits.
Format2(v) ==
    LET cent == 10 * LinkRatio
        q == v.mag \div cent
        r == v.mag % cent
        h == IF 2 * r > cent \/ (2 * r = cent /\ q % 2 = 1) THEN q + 1 ELSE q
    IN  (IF v.neg THEN <<"-">> ELSE <<>>)
          \o IntText(h \div 100)
          \o <<".", DigitChars[((h \div 10) % 10) + 1], DigitChars[(h % 10) + 1]>>

\* Mutant of LinkCoordinate: the coordinate is divided in both dimensions.
LinkCoordinate_AlwaysDivides(text, dim) == Format2(Eighth(Float(text)))

\* build_waymark_card, line 178: cx or cz for the coordinate text of an entry.
LinkCoordinate(text, dim) ==
    IF dim = "overworld" THEN Format2(Eighth(Float(text)))
    ELSE Format2(Eightfold(Float(text)))

\* build_waymark_card, lines 171-179: the link line of the card.
LinkOf(item) ==
    IF IsFloatText(item.x) /\ IsFloatText(item.y) /\ IsFloatText(item.z)
    THEN [label |-> IF item.dimension = "overworld" THEN "Nether Link" ELSE "Overworld Link",
          cx |-> LinkCoordinate(item.x, item.dimension),
          cz |-> LinkCoordinate(item.z, item.dimension)]
    ELSE [label |-> "Math Error", cx |-> <<"0">>, cz |-> <<"0">>]

NoCard == [label |-> "none"]

\* build_waymark_card(entry)
build_waymark_card(item) ==
    /\ card' = [item |-> item, label |-> LinkOf(item).label,
                cx |-> LinkOf(item).cx, cz |-> LinkOf(item).cz]
    /\ outcome' = Ended("build_waymark_card", "ok")
    /\ UNCHANGED <<files, images, current_world, all_data, options, ui_registry,
                   ui_seed_value, seed_read_only, entry, dlg, now>>

\* Coordinate texts of the entries whose cards are built.
XTexts == { <<"1", "0", "0">>, <<"1">>, <<"7">>, <<"-", "3">>, <<"1", "6">>, <<"0">> }
YTexts == { <<"6", "4">>, <<"0">>, <<>> }
ZTexts == { <<"-", "2", "0", "0">>, <<"8">>, <<"5">>, <<"-", "1">>, <<"2">> }
Dimensions == { "overworld", "nether" }

CardEntries ==
    { [StoredEntry EXCEPT !.x = x, !.y = y, !.z = z, !.dimension = d] :
        x \in XTexts, y \in YTexts, z \in ZTexts, d \in Dimensions }

\* The entry of the other dimension at the coordinates a card's link line shows.
LinkedEntry(c) ==
    [c.item EXCEPT !.x = c.cx, !.z = c.cz,
                   !.dimension = IF c.item.dimension = "overworld"
                                 THEN "nether" ELSE "overworld"]

(***************************************************************************)
(* Specifications.  The handlers are the same in all of them; they differ  *)
(* in the controls the user operates and in the inputs given.              *)
(*   Spec        the record controls of one world, over two minutes,       *)
(*               without screenshots;                                      *)
(*   SpecImages  the record controls with screenshots attached, within one *)
(*               second;                                                   *)
(*   SpecWorlds  the world controls together with the record controls, on  *)
(*               a fresh installation or on a stored directory;            *)
(*   SpecEdits   SAVE and the edit dialog, with screenshots, over two      *)
(*               minutes;                                                  *)
(*   SpecAssets  the record and world controls with a screenshot selected  *)
(*               on every SAVE and Update;                                 *)
(*   SpecCards   build_waymark_card on entries of both dimensions and on   *)
(*               the entries at the coordinates its link line shows.       *)
(***************************************************************************)
InitOn(storage) ==
    /\ \E fs \in storage :
          /\ files = InitFiles(fs, ListWorlds(fs))
          /\ options = InitOptions(ListWorlds(fs))
          /\ current_world = options[1]
          /\ all_data = Loaded(files, current_world, <<>>)
    /\ ui_registry = Cards(all_data)
    /\ ui_seed_value = SeedShown(all_data)
    /\ images = <<>>
    /\ seed_read_only = TRUE
    /\ entry = NoEntry
    /\ dlg = "none"
    /\ now = 0
    /\ outcome = Ended("init_world_data", "ok")
    /\ card = NoCard

Init == InitOn({<<>>})

Next ==
    \/ Tick
    \/ \E form \in Forms : Len(all_data) < MaxItems /\ process_new_entry(form, None)
    \/ \E i \in DOMAIN all_data : prompt_delete_entry(i)
    \/ finalize_delete
    \/ \E i \in DOMAIN all_data : show_edit_dialog(i)
    \/ \E form \in EditForms : commit_changes(form, None)
    \/ \E typed \in Seeds : toggle_seed_security(typed)
    \/ \E value \in Range(options) : on_world_swap(value)
    \/ \E text \in Terms : apply_search_filter(text)

Spec == Init /\ [][Next]_vars

NextImages ==
    \/ \E form \in Forms, selected \in {None} \cup ImagePaths :
          Len(all_data) < MaxItems /\ process_new_entry(form, selected)
    \/ \E i \in DOMAIN all_data : prompt_delete_entry(i)
    \/ finalize_delete
    \/ \E i \in DOMAIN all_data : show_edit_dialog(i)
    \/ \E form \in EditForms, picked \in {None} \cup ImagePaths :
          commit_changes(form, picked)
    \/ \E typed \in Seeds : toggle_seed_security(typed)
    \/ \E value \in Range(options) : on_world_swap(value)
    \/ delete_confirmed

SpecImages == Init /\ [][NextImages]_vars

InitWorlds == InitOn(InitialStorage)

NextWorlds ==
    \/ \E form \in Forms : Len(all_data) < MaxWorldItems /\ process_new_entry(form, None)
    \/ \E i \in DOMAIN all_data : prompt_delete_entry(i)
    \/ finalize_delete
    \/ \E i \in DOMAIN all_data : show_edit_dialog(i)
    \/ \E form \in EditForms : commit_changes(form, None)
    \/ \E typed \in Seeds : toggle_seed_security(typed)
    \/ \E raw \in RawNames : execute_world_creation(raw)
    \/ \E value \in Range(options) : on_world_swap(value)
    \/ delete_confirmed

SpecWorlds == InitWorlds /\ [][NextWorlds]_vars

NextEdits ==
    \/ Tick
    \/ \E form \in Forms, selected \in {None} \cup ImagePaths :
          Len(all_data) < MaxItems /\ process_new_entry(form, selected)
    \/ \E i \in DOMAIN all_data : show_edit_dialog(i)
    \/ \E form \in EditForms, picked \in {None} \cup ImagePaths :
          commit_changes(form, picked)

SpecEdits == Init /\ [][NextEdits]_vars

NextAssets ==
    \/ \E form \in Forms, selected \in ImagePaths :
          Len(all_data) < MaxWorldItems /\ process_new_entry(form, selected)
    \/ \E i \in DOMAIN all_data : prompt_delete_entry(i)
    \/ finalize_delete
    \/ \E i \in DOMAIN all_data : show_edit_dialog(i)
    \/ \E form \in EditForms, picked \in ImagePaths : commit_changes(form, picked)
    \/ \E typed \in Seeds \ {""} : toggle_seed_security(typed)
    \/ \E raw \in RawNames : execute_world_creation(raw)
    \/ \E value \in Range(options) : on_world_swap(value)
    \/ delete_confirmed

SpecAssets == Init /\ [][NextAssets]_vars

NextCards ==
    \/ \E item \in CardEntries : build_waymark_card(item)
    \/ card.label \in {"Nether Link", "Overworld Link"}
          /\ build_waymark_card(LinkedEntry(card))

SpecCards == Init /\ [][NextCards]_vars

(***************************************************************************)
(* Claims                                                                  *)
(***************************************************************************)
SelectedPaths == {None} \cup ImagePaths

MetaCount(data) == Cardinality({ i \in DOMAIN data : IsMeta(data[i]) })

\* C1: a Create with a non-empty description that completes puts the new
\* entry first, and every item held before follows it in its previous order.
C1_CreatePrepends ==
    [][\A form \in Forms, selected \in SelectedPaths :
          (/\ outcome' = Ended("process_new_entry", "ok")
           /\ process_new_entry(form, selected)
           /\ form.desc # <<>>)
          => /\ Len(all_data') = Len(all_data) + 1
             /\ ~IsMeta(all_data'[1])
             /\ all_data'[1].desc = form.desc
             /\ \A i \in DOMAIN all_data : all_data'[i + 1] = all_data[i]]_vars

\* C1 witness: two entries created a minute apart, the later one first.
C1_Witness ==
    /\ outcome = Ended("process_new_entry", "ok")
    /\ Len(all_data) >= 2
    /\ ~IsMeta(all_data[1]) /\ ~IsMeta(all_data[2])
    /\ all_data[1].created > all_data[2].created

\* C2: the collection in memory and every backing file hold at most one
\* WorldMetadata item.
C2_MetaSingleton ==
    /\ MetaCount(all_data) <= 1
    /\ \A p \in DOMAIN files : MetaCount(JsonLoad(files[p])) <= 1

\* C2 witness: the stored world's seed was set again, in place.
C2_Witness ==
    /\ all_data = <<StoredEntry, [type |-> "world_meta", seed |-> ""]>>
    /\ files[Path(current_world)] = JsonDump(all_data)

\* C3: Delete of an entry that is no member of the collection leaves the
\* collection and the backing file unchanged.
C3_StaleDeleteChangesNothing ==
    [][(outcome'.handler = "finalize_delete" /\ finalize_delete /\ entry.idx = 0)
          => (all_data' = all_data /\ files' = files)]_vars

\* C4: Delete of an entry that is no member of the collection raises nothing.
C4_StaleDeleteIsSilent ==
    [][(outcome'.handler = "finalize_delete" /\ finalize_delete /\ entry.idx = 0)
          => outcome'.exit = "ok"]_vars

\* The collection a fresh load of the world's backing file gives: empty for a
\* missing or malformed file.
FreshLoad(fs, world) ==
    IF Path(world) \in DOMAIN fs THEN JsonLoad(fs[Path(world)]) ELSE <<>>

\* C5: after every handler, reloading the active world's backing file yields
\* the collection held in memory.
C5_MemoryMatchesFile == all_data = FreshLoad(files, current_world)

\* C6: selecting a world whose backing file is missing yields an empty
\* collection.
C6_MissingFileLoadsEmpty ==
    [][\A value \in Range(options) :
          (/\ outcome'.handler = "on_world_swap"
           /\ on_world_swap(value)
           /\ LoadBranch(files, value) = "missing")
          => all_data' = <<>>]_vars

\* A handler that selects a world and loads it.
LoadsWorld ==
    \/ \E value \in Range(options) : on_world_swap(value)
    \/ \E raw \in RawNames : execute_world_creation(raw) /\ Sanitize(raw) # <<>>
    \/ delete_confirmed

\* C7: loading a world whose backing file is malformed yields an empty
\* collection and raises nothing.
C7_MalformedLoadsEmpty ==
    [][(LoadBranch(files', current_world') = "malformed" /\ LoadsWorld)
          => (all_data' = <<>> /\ outcome'.exit = "ok")]_vars

\* C7 witness: the malformed world was selected after an entry of another
\* world had been captured by a dialog.
C7_Witness ==
    /\ LoadBranch(files, current_world) = "malformed"
    /\ all_data = <<>>
    /\ outcome = Ended("on_world_swap", "ok")
    /\ dlg # "none" /\ entry.idx = 0

\* Two characters that differ at most in case.
SameLetter(c, d) ==
    \/ c = d
    \/ {c, d} \in { {"L", "l"}, {"A", "a"}, {"B", "b"} }

\* text occurs in desc as a contiguous run, ignoring case.
OccursIgnoringCase(desc, text) ==
    \E k \in 0..(Len(desc) - Len(text)) :
        \A j \in 1..Len(text) : SameLetter(desc[k + j], text[j])

\* C8: Search shows exactly the entries whose description contains the term
\* ignoring case, in collection order, no metadata item, and leaves the
\* collection unchanged.
C8_SearchExact ==
    [][\A text \in Terms :
          (outcome'.handler = "apply_search_filter" /\ apply_search_filter(text))
          => /\ all_data' = all_data /\ files' = files
             /\ \A a, b \in DOMAIN ui_registry' : a < b => ui_registry'[a] < ui_registry'[b]
             /\ Range(ui_registry') =
                   { i \in DOMAIN all_data :
                        ~IsMeta(all_data[i]) /\ OccursIgnoringCase(all_data[i].desc, text) }]_vars

\* C8 witness: a search kept one of two entries, beside a metadata item.
C8_Witness ==
    /\ outcome.handler = "apply_search_filter"
    /\ Len(ui_registry) = 1
    /\ Len(Cards(all_data)) = 2
    /\ MetaCount(all_data) = 1

\* C9: Create with an empty description changes neither the collection, nor
\* the backing files, nor the stored images, whatever image path is selected.
C9_EmptyCreateIsNoOp ==
    [][\A form \in Forms, selected \in SelectedPaths :
          (/\ outcome'.handler = "process_new_entry"
           /\ process_new_entry(form, selected)
           /\ form.desc = <<>>)
          => UNCHANGED <<all_data, files, images>>]_vars

\* C9 witness: a Create was rejected while the collection held an entry with
\* a stored image.
C9_Witness ==
    /\ outcome = Ended("process_new_entry", "rejected")
    /\ images # <<>>
    /\ all_data # <<>>

\* C10: CreateWorld with a non-empty sanitized name n leaves n's backing file
\* holding an empty collection and every other backing file as it was
\* (written frame first: the frame holds, or the step is no CreateWorld of raw).
C10_CreateWorldFrame ==
    [][outcome'.handler = "execute_world_creation" =>
          \A raw \in RawNames :
             Sanitize(raw) # <<>>
             => \/ /\ DOMAIN files' = DOMAIN files \cup {Path(Sanitize(raw))}
                   /\ files'[Path(Sanitize(raw))] = JsonDump(<<>>)
                   /\ \A p \in DOMAIN files \ {Path(Sanitize(raw))} : files'[p] = files[p]
                \/ ~execute_world_creation(raw)]_vars

\* C10 witness: world "a" was created over its stored file while the default
\* world's file kept its entries.
C10_Witness ==
    /\ outcome = Ended("execute_world_creation", "ok")
    /\ Path(<<"a">>) \in DOMAIN files
    /\ files[Path(<<"a">>)] = JsonDump(<<>>)
    /\ files[Path(DefaultWorld)] = JsonDump(<<StoredEntry, [type |-> "world_meta", seed |-> "42"]>>)
    /\ current_world = DefaultWorld

\* A text that is empty or holds whitespace only.
Blank(raw) == \A i \in DOMAIN raw : raw[i] \in {" ", "\t"}

\* C11: CreateWorld with an empty or whitespace-only name changes neither the
\* worlds listed, nor any backing file, nor the active world, nor the
\* collection in memory, and raises nothing.
C11_BlankCreateWorldIsNoOp ==
    [][outcome'.handler = "execute_world_creation" =>
          \A raw \in RawNames :
             (Blank(raw) /\ execute_world_creation(raw))
             => /\ UNCHANGED <<options, files, current_world, all_data>>
                /\ outcome'.exit = "ignored"]_vars

\* C11 witness: a blank name was ignored while the second listed world was
\* active and its collection held an entry.
C11_Witness ==
    /\ outcome = Ended("execute_world_creation", "ignored")
    /\ Len(options) >= 2 /\ current_world = options[2]
    /\ all_data # <<>>

\* C12: the active world names an existing backing file.
C12_ActiveWorldExists == Path(current_world) \in DOMAIN files

\* C13: an Edit of an entry that is a member of the collection leaves the
\* number and order of the items, every other item and the target's created
\* stamp as they were, sets modified to the current minute, and keeps the
\* image field when no replacement image is supplied.
C13_EditChangesOnlyTarget ==
    [][\A form \in EditForms, picked \in SelectedPaths :
          (/\ outcome' = Ended("commit_changes", "ok")
           /\ commit_changes(form, picked)
           /\ entry.idx > 0)
          => /\ Len(all_data') = Len(all_data)
             /\ \A i \in DOMAIN all_data : i # entry.idx => all_data'[i] = all_data[i]
             /\ all_data'[entry.idx].created = all_data[entry.idx].created
             /\ all_data'[entry.idx].modified = now \div SecondsPerMinute
             /\ all_data'[entry.idx].desc = form.desc
             /\ picked = None => all_data'[entry.idx].image = all_data[entry.idx].image
             /\ JsonLoad(files'[Path(current_world)]) = all_data']_vars

\* C13 witness: the second of two entries was edited a minute after it was
\* created, without a replacement image, and kept its screenshot.
C13_Witness ==
    /\ outcome = Ended("commit_changes", "ok")
    /\ Len(all_data) = 2
    /\ all_data[2].desc = <<"l", "a", "b">>
    /\ all_data[2].created = 0 /\ all_data[2].modified = 1
    /\ all_data[2].image = ImageName("img_", 0)
    /\ all_data[1].desc = <<"L", "a">>

\* The stored images that an entry of some backing file refers to.
ReferencedImages ==
    { it.image : it \in { x \in UNION { Range(JsonLoad(files[p])) : p \in DOMAIN files } :
                             ~IsMeta(x) } }

\* C14: no step removes a stored image: every image file that exists before a
\* step exists after it.
C14_ImagesNeverShrink ==
    [][\A name \in DOMAIN images : name \in DOMAIN images']_vars

\* C14 witness: a world was deleted, and the screenshots that were stored for
\* a created and for an edited entry exist while no backing file refers to them.
C14_Witness ==
    /\ outcome = Ended("delete_confirmed", "ok")
    /\ DOMAIN images = {ImageName("img_", 0), ImageName("img_edit_", 0)}
    /\ ReferencedImages \cap DOMAIN images = {}

\* The number a coordinate text denotes, counted in 1/8000.
Ticks(text) == IF Float(text).neg THEN 0 - Float(text).mag ELSE Float(text).mag

Dist(a, b) == IF a >= b THEN a - b ELSE b - a

\* A text written with exactly two fraction digits.
TwoDecimals(text) ==
    /\ Len(text) >= 4
    /\ text[Len(text) - 2] = "."
    /\ IsDigit(text[Len(text) - 1]) /\ IsDigit(text[Len(text)])
    /\ \A i \in 1..(Len(text) - 3) : IsDigit(text[i]) \/ (i = 1 /\ text[i] = "-")

\* out is the text of in / 8 at two decimal places: within half a hundredth.
IsEighthOf(out, in) == TwoDecimals(out) /\ Dist(8 * Ticks(out), Ticks(in)) <= 8 * 40

\* out is the text of in * 8 at two decimal places.
IsEightfoldOf(out, in) == TwoDecimals(out) /\ Ticks(out) = 8 * Ticks(in)

\* C15: for an entry whose x, y and z texts are numbers, the card shows
\* (x/8, z/8) for an Overworld entry and (x*8, z*8) for a Nether entry, at two
\* decimal places, whatever y is.
C15_LinkedCoordinate ==
    (/\ card # NoCard
     /\ IsFloatText(card.item.x) /\ IsFloatText(card.item.y) /\ IsFloatText(card.item.z))
    => /\ card.item.dimension = "overworld"
            => /\ card.label = "Nether Link"
               /\ IsEighthOf(card.cx, card.item.x) /\ IsEighthOf(card.cz, card.item.z)
       /\ card.item.dimension = "nether"
            => /\ card.label = "Overworld Link"
               /\ IsEightfoldOf(card.cx, card.item.x) /\ IsEightfoldOf(card.cz, card.item.z)
       /\ \A y \in { t \in YTexts : IsFloatText(t) } :
             LinkOf([card.item EXCEPT !.y = y]) = [label |-> card.label, cx |-> card.cx, cz |-> card.cz]

\* C15 witness: the Overworld entry at x = 100, z = -200 shows 12.50 and -25.00.
C15_Witness ==
    /\ card # NoCard
    /\ card.item = StoredEntry
    /\ card.cx = <<"1", "2", ".", "5", "0">>
    /\ card.cz = <<"-", "2", "5", ".", "0", "0">>

\* C16: the Overworld-to-Nether text of (x, z), transformed back with the
\* Nether-to-Overworld transform, is within 0.01 of (x, z).
C16_RoundTripWithinTolerance ==
    [][(/\ card.label = "Nether Link"
        /\ build_waymark_card(LinkedEntry(card)))
       => /\ Dist(Ticks(card'.cx), Ticks(card.item.x)) <= 80
          /\ Dist(Ticks(card'.cz), Ticks(card.item.z)) <= 80]_vars

\* The collection in memory is the one just loaded from the active world's
\* well-formed backing file.
JustLoaded ==
    /\ LoadBranch(files, current_world) = "ok"
    /\ all_data = JsonLoad(files[Path(current_world)])

\* C17: a save of the just-loaded, unmodified collection (the seed locked
\* again with the value it already has) writes a file whose records are those
\* of the file loaded, and a further load returns the same collection.
C17_SaveOfLoadedIsIdempotent ==
    [][\A typed \in Seeds :
          (/\ outcome' = Ended("toggle_seed_security", "ok")
           /\ toggle_seed_security(typed)
           /\ JustLoaded
           /\ FirstMeta(all_data) # 0
           /\ all_data[FirstMeta(all_data)].seed = typed)
          => /\ JsonLoad(files'[Path(current_world)]) = JsonLoad(files[Path(current_world)])
             /\ Loaded(files', current_world, <<>>) = all_data
             /\ all_data' = all_data]_vars

\* C17 witness: the stored world, an entry and its seed, was loaded at startup
\* and saved again with the same seed.
C17_Witness ==
    /\ outcome = Ended("toggle_seed_security", "ok")
    /\ current_world = DefaultWorld
    /\ all_data = <<StoredEntry, [type |-> "world_meta", seed |-> "42"]>>
    /\ JustLoaded

\* C18: every listed world name designates an existing backing file of its
\* own: the file of that name exists and no name is listed twice.
C18_NamesMapToFiles ==
    \A i \in DOMAIN options :
        /\ Path(options[i]) \in DOMAIN files
        /\ \A j \in DOMAIN options : options[j] = options[i] => j = i

\* The handlers of Create, Edit, Delete and SetSeed.
RecordHandlers ==
    {"process_new_entry", "commit_changes", "finalize_delete", "toggle_seed_security"}

\* The entries (no metadata) of a collection.
Entries(data) == { it \in Range(data) : ~IsMeta(it) }

\* The entries a record step itself makes: the entry created, the entry as
\* edited.
MadeByStep ==
    CASE outcome'.handler = "process_new_entry" -> {all_data'[1]}
      [] outcome'.handler = "commit_changes" ->
            { Updated(entry.obj, form, now, entry.obj.image) : form \in EditForms }
      [] OTHER -> {}

\* C19: a completed Create, Edit, Delete or SetSeed step leaves the backing
\* file of every world but the active one as it was, and the entries in the
\* active world's file after the step are entries that file held before or
\* the entry the step made.
C19_WorldIsolation ==
    [][(outcome'.handler \in RecordHandlers /\ outcome'.exit = "ok")
       => /\ DOMAIN files' = DOMAIN files \cup {Path(current_world)}
          /\ \A p \in DOMAIN files \ {Path(current_world)} : files'[p] = files[p]
          /\ Entries(JsonLoad(files'[Path(current_world)]))
                \subseteq Entries(FreshLoad(files, current_world)) \cup MadeByStep]_vars

\* The image paths that cannot be copied.
Unreadable == ImagePaths \ Readable

\* C20: a Create (with a description) or an Edit whose image cannot be copied
\* ends with the copy's error and leaves the collection, the backing files
\* and the dialog's entry as they were.
C20_CopyFailureChangesNothing ==
    [][/\ \A form \in Forms, selected \in Unreadable :
             (/\ outcome'.handler = "process_new_entry"
              /\ process_new_entry(form, selected)
              /\ form.desc # <<>>)
             => /\ outcome'.exit = "copy_error"
                /\ UNCHANGED <<all_data, files, entry>>
       /\ \A form \in EditForms, picked \in Unreadable :
             (/\ outcome'.handler = "commit_changes"
              /\ commit_changes(form, picked))
             => /\ outcome'.exit = "copy_error"
                /\ UNCHANGED <<all_data, files, entry>>]_vars

\* C20 witness: an Edit of a member of a two-entry collection ended with the
\* copy's error.
C20_Witness ==
    /\ outcome = Ended("commit_changes", "copy_error")
    /\ Len(all_data) = 2
    /\ entry.idx = 2 /\ entry.obj = all_data[2]
    /\ files[Path(current_world)] = JsonDump(all_data)

====
